---- MODULE Spec2Model ----
(***************************************************************************)
(* A model of the goose Coq pretty-printer (internal/coq/coq.go) and of   *)
(* the command-line driver that writes its output.                        *)
(*                                                                         *)
(* Text is modelled rune by rune: a Go string is a sequence of one-rune   *)
(* strings, so that prefix and suffix tests, splitting at newlines,       *)
(* indentation and trailing-whitespace questions are decided on the       *)
(* characters themselves.  fmt.Sprintf with %s verbs is concatenation of  *)
(* the format's literal pieces with the arguments.  A rune that the       *)
(* module's lexer does not take in a string (the runes outside ASCII and  *)
(* the backquote) is written by its code point: "U+03BB" is the one rune  *)
(* lambda.                                                                 *)
(*                                                                         *)
(* A Go panic unwinds every caller.  It is modelled as a poison rune that *)
(* the panicking call returns and that every string operation preserves:  *)
(* the outermost result contains the rune iff some call inside panicked.  *)
(*                                                                         *)
(* An operator that reads an operand several times first binds it as a    *)
(* value (x \in {x_}), so that the operand is evaluated once:              *)
(* CHOOSE r \in {e(x) : x \in {x_}} : TRUE is e(x_).                        *)
(***************************************************************************)
EXTENDS Integers, Sequences, FiniteSets, TLC

VARIABLES
    pc,           \* position of the client or of the driver
    ast,          \* the node handed to the pretty-printer (an Expr, Type or Decl)
    calls,        \* the AddField calls made on the StructLiteral under construction
    out,          \* text returned by Coq() or CoqDecl()
    buffer,       \* a buffer (var pp buffer) that a sequence of calls acts on
    lastCall,     \* the last call made on the buffer, and the buffer before it
    built,        \* text returned by the last Build()
    file,         \* the File assembled by TranslatePackage
    translateErr, \* TranslatePackage returns an error
    outFile,      \* value of the -out flag
    created,      \* os.Create(outFile) has created the output file
    w,            \* text written so far to the output writer
    i,            \* number of declarations File.Write has written
    stderr,       \* lines printed to the error stream
    exitCode      \* process exit code (-1 while running)

vars == <<pc, ast, calls, out, buffer, lastCall, built, file, translateErr, outFile,
          created, w, i, stderr, exitCode>>

bufVars == <<buffer, lastCall, built>>

libVars == <<ast, calls, out, buffer, lastCall, built>>

driverVars == <<file, translateErr, outFile, created, w, i, stderr, exitCode>>

(***************************************************************************)
(* Bounds of the model.                                                    *)
(***************************************************************************)
\* most names of a Binding
MaxNames == 3
\* most bindings of a BlockExpr
MaxBindings == 3
\* most arguments of a call, elements of a tuple
MaxArgs == 2
\* most fields of a struct declaration or literal
MaxFields == 2
\* most declarations of a File
MaxDecls == 2
\* most calls made on one buffer
MaxCalls == 3

(***************************************************************************)
(* package strings                                                         *)
(***************************************************************************)
PanicRune == "panic!"

Panicked(s) == \E k \in 1..Len(s) : s[k] = PanicRune

HasPrefix(s, p) == Len(s) >= Len(p) /\ SubSeq(s, 1, Len(p)) = p

HasSuffix(s, p) == Len(s) >= Len(p) /\ SubSeq(s, Len(s) - Len(p) + 1, Len(s)) = p

Contains(s, sub) ==
    \E k \in 1..(Len(s) - Len(sub) + 1) : SubSeq(s, k, k + Len(sub) - 1) = sub

ContainsRune(s, r) == \E k \in 1..Len(s) : s[k] = r

RECURSIVE Repeat(_, _)
Repeat(s, count) ==
    IF count < 0 THEN <<PanicRune>>
    ELSE IF count = 0 THEN <<>>
    ELSE s \o Repeat(s, count - 1)

\* the pieces of s between the places in cuts, which holds 0 and Len(s) + 1
Pieces(s, cuts) ==
    LET starts == cuts \ {Len(s) + 1}
        NextCut(c) == CHOOSE d \in cuts : d > c /\ \A e \in cuts : e > c => d <= e
        Rank(c) == Cardinality({d \in starts : d < c}) + 1
    IN  [j \in 1..Cardinality(starts) |->
            LET c == CHOOSE c \in starts : Rank(c) = j
            IN  SubSeq(s, c + 1, NextCut(c) - 1)]

\* strings.Split(s, sep) for a one-rune sep
Split(s_, sep) ==
    CHOOSE r \in {Pieces(s, cuts) :
                    s \in {s_},
                    cuts \in {{0} \cup {k \in 1..Len(s_) : s_[k] = sep}
                                  \cup {Len(s_) + 1}}} : TRUE

RECURSIVE JoinFrom(_, _, _)
JoinFrom(elems, sep, k) ==
    IF k > Len(elems) THEN <<>>
    ELSE IF k = Len(elems) THEN elems[k]
    ELSE elems[k] \o sep \o JoinFrom(elems, sep, k + 1)

\* strings.Join(elems, sep)
Join(elems_, sep) == CHOOSE r \in {JoinFrom(elems, sep, 1) : elems \in {elems_}} : TRUE

RECURSIVE TrimRight(_, _)
TrimRight(s, cutset) ==
    IF Len(s) > 0 /\ s[Len(s)] \in cutset
    THEN TrimRight(SubSeq(s, 1, Len(s) - 1), cutset)
    ELSE s

RECURSIVE TrimLeft(_, _)
TrimLeft(s, cutset) ==
    IF Len(s) > 0 /\ s[1] \in cutset THEN TrimLeft(Tail(s), cutset) ELSE s

Trim(s, cutset) == TrimLeft(TrimRight(s, cutset), cutset)

\* fmt.Sprintf("%d", n) for an unsigned n
RECURSIVE Itoa(_)
Itoa(n) ==
    LET digit == <<"0", "1", "2", "3", "4", "5", "6", "7", "8", "9">>
    IN  IF n < 10 THEN <<digit[n + 1]>>
        ELSE Itoa(n \div 10) \o <<digit[(n % 10) + 1]>>

\* the sequence f(elems[1]), ..., f(elems[n]) of a range loop that appends
Map(f(_), elems) == [k \in 1..Len(elems) |-> f(elems[k])]

(***************************************************************************)
(* buffer: the indenting pretty printer                                    *)
(***************************************************************************)
isWellBalanced(s, lDelim, rDelim) == HasPrefix(s, lDelim) /\ HasSuffix(s, rDelim)

\* var pp buffer
NewBuffer == [lines |-> <<>>, indentLevel |-> 0]

\* make([]byte, n) panics for a negative n
indentation(pp) ==
    (IF pp.indentLevel < 0 THEN <<PanicRune>> ELSE Repeat(<<" ">>, pp.indentLevel))

appendLine(pp, line) == [pp EXCEPT !.lines = Append(@, line)]

indent(spaces, s) ==
    CHOOSE r \in
        {Join([k \in 1..Len(lines) |->
                  IF k = 1 \/ lines[k] = <<>> THEN lines[k]
                  ELSE indentation_ \o lines[k]], <<"\n">>) :
           lines \in {Split(s, "\n")}, indentation_ \in {Repeat(<<" ">>, spaces)}} : TRUE

\* AddLine that indents the first line only
AddLine_firstLineOnly(pp_, line_) ==
    CHOOSE r \in
        {IF line = <<>> THEN appendLine(pp, <<>>)
         ELSE appendLine(pp, indentation(pp) \o line) :
           pp \in {pp_}, line \in {line_}} : TRUE

AddLine(pp_, line_) ==
    CHOOSE r \in
        {IF line = <<>> THEN appendLine(pp, <<>>)
         ELSE appendLine(pp, indentation(pp) \o indent(pp.indentLevel, line)) :
           pp \in {pp_}, line \in {line_}} : TRUE

\* Add(format, args...): the caller passes the formatted string
Add(pp, formatted) == AddLine(pp, formatted)

Indent(pp, spaces) == [pp EXCEPT !.indentLevel = @ + spaces]

\* Block that leaves the continuation lines of the body where they are
Block_bodyNotIndented(pp, prefix_, formatted) ==
    Indent(AddLine(pp, prefix_ \o formatted), Len(prefix_))

Block(pp, prefix_, formatted) ==
    CHOOSE r \in
        {Indent(AddLine(pp, prefix \o indent(Len(prefix), formatted)), Len(prefix)) :
           prefix \in {prefix_}} : TRUE

\* Build with a newline after every entry
Build_newlineAfterEach(pp) ==
    IF pp.lines = <<>> THEN <<>> ELSE Join(pp.lines, <<"\n">>) \o <<"\n">>

Build(pp) == Join(pp.lines, <<"\n">>)

addParens(s_) ==
    CHOOSE r \in
        {IF ~Contains(s, <<" ">>) \/ isWellBalanced(s, <<"(">>, <<")">>)
                              \/ isWellBalanced(s, <<"{", "|">>, <<"|", "}">>)
         THEN s
         ELSE <<"(">> \o s \o <<")">> : s \in {s_}} : TRUE

\* AddComment that leaves the indent level where Block put it
AddComment_noDedent(pp, c_) ==
    IF c_ = <<>> THEN pp ELSE Block(pp, <<"(", "*", " ">>, c_ \o <<" ", "*", ")">>)

AddComment(pp, c_) ==
    CHOOSE r \in
        {IF c = <<>> THEN pp
         ELSE Indent(Block(pp, <<"(", "*", " ">>, c \o <<" ", "*", ")">>), -Len(<<"(", "*", " ">>)) : c \in {c_}} : TRUE

\* quote without the case of the wildcard
quote_wildcardQuoted(s) == <<"\"">> \o s \o <<"\"">>

quote(s) == IF s = <<"_">> THEN <<"<", ">">> ELSE <<"\"">> \o s \o <<"\"">>

binder(s) == IF s = <<"_">> THEN <<"<", ">">> ELSE quote(s)

(***************************************************************************)
(* The TARGET AST.  A node is a record whose kind names its Go type and   *)
(* whose other fields are the Go struct's fields.                          *)
(***************************************************************************)
FieldDecl(name, type) == [Name |-> name, Type |-> type]

TypeIdent(t) == [kind |-> "TypeIdent", name |-> t]

StructName(t) == [kind |-> "StructName", name |-> t]

MapType(value) == [kind |-> "MapType", Value |-> value]

SliceType(value) == [kind |-> "SliceType", Value |-> value]

TupleType(types) == [kind |-> "TupleType", types |-> types]

PtrType(value) == [kind |-> "PtrType", Value |-> value]

GallinaIdent(s) == [kind |-> "GallinaIdent", name |-> s]

IdentExpr(s) == [kind |-> "IdentExpr", name |-> s]

GallinaString(s) == [kind |-> "GallinaString", value |-> s]

CallExpr(name, args) == [kind |-> "CallExpr", MethodName |-> name, Args |-> args]

StructFieldAccessExpr(struct, field, x, throughPointer) ==
    [kind |-> "StructFieldAccessExpr", Struct |-> struct, Field |-> field,
     X |-> x, ThroughPointer |-> throughPointer]

ReturnExpr(value) == [kind |-> "ReturnExpr", Value |-> value]

Binding(names, expr) == [Names |-> names, Expr |-> expr]

NewAnon(e) == Binding(<<>>, e)

isAnonymous(b) == Len(b.Names) = 0

fieldVal(field, value) == [Field |-> field, Value |-> value]

StructLiteral(structName, elts, allocation) ==
    [kind |-> "StructLiteral", StructName |-> structName, elts |-> elts,
     Allocation |-> allocation]

NewStructLiteral(structName) == StructLiteral(structName, <<>>, FALSE)

\* AddField putting the new pair first
AddField_prepend(sl, field, value) ==
    [sl EXCEPT !.elts = <<fieldVal(field, value)>> \o @]

AddField(sl, field, value) ==
    [sl EXCEPT !.elts = Append(@, fieldVal(field, value))]

BoolLiteral(b) == [kind |-> "BoolLiteral", value |-> b]

Tt == [kind |-> "UnitLiteral"]

IntLiteral(v) == [kind |-> "IntLiteral", Value |-> v]

Int32Literal(v) == [kind |-> "Int32Literal", Value |-> v]

StringLiteral(v) == [kind |-> "StringLiteral", Value |-> v]

\* const ( OpPlus BinOp = iota ... OpMul )
OpPlus == 0
OpMinus == 1
OpEquals == 2
OpLessThan == 3
OpGreaterThan == 4
OpLessEq == 5
OpGreaterEq == 6
OpAppend == 7
OpMul == 8

BinaryExpr(x, op, y) == [kind |-> "BinaryExpr", X |-> x, Op |-> op, Y |-> y]

NotExpr(x) == [kind |-> "NotExpr", X |-> x]

TupleExpr(es) == [kind |-> "TupleExpr", elems |-> es]

NewTuple(es) == IF Len(es) = 1 THEN es[1] ELSE TupleExpr(es)

BlockExpr(bindings) == [kind |-> "BlockExpr", Bindings |-> bindings]

DerefExpr(x) == [kind |-> "DerefExpr", X |-> x]

RefExpr(x) == [kind |-> "RefExpr", X |-> x]

StoreStmt(dst, x) == [kind |-> "StoreStmt", Dst |-> dst, X |-> x]

IfExpr(cond, then, else) ==
    [kind |-> "IfExpr", Cond |-> cond, Then |-> then, Else |-> else]

HashTableInsert(value) == [kind |-> "HashTableInsert", Value |-> value]

ForLoopExpr(init, cond, post, body) ==
    [kind |-> "ForLoopExpr", Init |-> init, Cond |-> cond, Post |-> post,
     Body |-> body]

MapIterExpr(keyIdent, valueIdent, map, body) ==
    [kind |-> "MapIterExpr", KeyIdent |-> keyIdent, ValueIdent |-> valueIdent,
     Map |-> map, Body |-> body]

SpawnExpr(body) == [kind |-> "SpawnExpr", Body |-> body]

NewCallExpr(name, args) == CallExpr(name, IF Len(args) = 0 THEN <<Tt>> ELSE args)

StructDesc(name) == GallinaIdent(name \o <<".", "S">>)

(***************************************************************************)
(* Coq(): the rendering of every Type and Expr variant.  Coq dispatches   *)
(* on the node's dynamic type, as the interface call does.                 *)
(***************************************************************************)
RECURSIVE Coq(_)
RECURSIVE BlockExpr_Coq(_)

TypeIdent_Coq(t) == t.name

StructName_Coq(t) == t.name \o <<".", "T">>

CallExpr_Coq(s) ==
    LET comps == <<s.MethodName>> \o Map(LAMBDA a : addParens(Coq(a)), s.Args)
    IN  Join(comps, <<" ">>)

MapType_Coq(t) == CallExpr_Coq(NewCallExpr(<<"m", "a", "p", "T">>, <<t.Value>>))

SliceType_Coq(t) == <<"s", "l", "i", "c", "e", ".", "T", " ">> \o addParens(Coq(t.Value))

TupleType_Coq(tt) == <<"(">> \o Join(Map(Coq, tt.types), <<" ", "*", " ">>) \o <<")">>

PtrType_Coq(t) == CallExpr_Coq(NewCallExpr(<<"r", "e", "f", "T">>, <<t.Value>>))

GallinaIdent_Coq(e) == e.name

IdentExpr_Coq(e) == quote(e.name)

GallinaString_Coq(s) == quote(s.value)

\* StructFieldAccessExpr_Coq taking the T.get form whatever ThroughPointer says
StructFieldAccessExpr_Coq_alwaysGet(e) ==
    CallExpr_Coq(NewCallExpr(e.Struct \o <<".", "g", "e", "t">>, <<GallinaString(e.Field), e.X>>))

StructFieldAccessExpr_Coq(e) ==
    IF e.ThroughPointer
    THEN CallExpr_Coq(NewCallExpr(<<"s", "t", "r", "u", "c", "t", ".", "l", "o", "a", "d", "F">>,
             <<StructDesc(e.Struct), GallinaString(e.Field), e.X>>))
    ELSE CallExpr_Coq(NewCallExpr(e.Struct \o <<".", "g", "e", "t">>,
             <<GallinaString(e.Field), e.X>>))

ReturnExpr_Coq(e) == Coq(e.Value)

RECURSIVE StructLiteral_elts(_, _, _)
\* the loop over sl.elts, from index k on
StructLiteral_elts(pp, elts, k) ==
    IF k > Len(elts) THEN pp
    ELSE LET f == elts[k]
             terminator == IF k = Len(elts) THEN <<>> ELSE <<";">>
         IN  StructLiteral_elts(
                 Add(pp, quote(f.Field) \o <<" ", ":", ":", "=", " ">> \o Coq(f.Value) \o terminator),
                 elts, k + 1)

StructLiteral_Coq(sl) ==
    LET method == IF sl.Allocation THEN <<"s", "t", "r", "u", "c", "t", ".", "n", "e", "w">> ELSE <<"s", "t", "r", "u", "c", "t", ".", "m", "k">>
        pp1 == Add(NewBuffer,
                   method \o <<" ">> \o Coq(StructDesc(sl.StructName)) \o <<" ", "[">>)
        pp2 == Indent(pp1, 2)
        pp3 == StructLiteral_elts(pp2, sl.elts, 1)
        pp4 == Indent(pp3, -2)
        pp5 == Add(pp4, <<"]">>)
    IN  Build(pp5)

BoolLiteral_Coq(b) == IF b.value THEN <<"#", "t", "r", "u", "e">> ELSE <<"#", "f", "a", "l", "s", "e">>

UnitLiteral_Coq(tt) == <<"#", "(", ")">>

IntLiteral_Coq(l) == <<"#">> \o Itoa(l.Value)

Int32Literal_Coq(l) == <<"#", "(", "U", "3", "2", " ">> \o Itoa(l.Value) \o <<")">>

StringLiteral_Coq(l) == <<"#", "(", "s", "t", "r", "\"">> \o l.Value \o <<"\"", ")">>

\* the coqBinOp map literal
coqBinOp ==
    [op \in OpPlus..OpMul |->
        CASE op = OpPlus -> <<"+">>
          [] op = OpMinus -> <<"-">>
          [] op = OpEquals -> <<"=">>
          [] op = OpAppend -> <<"+">>
          [] op = OpMul -> <<"*">>
          [] op = OpLessThan -> <<"<">>
          [] op = OpGreaterThan -> <<">">>
          [] op = OpLessEq -> <<"U+2264">>
          [] op = OpGreaterEq -> <<"U+2265">>]

BinaryExpr_Coq(be) ==
    IF be.Op \in DOMAIN coqBinOp
    THEN Coq(be.X) \o <<" ">> \o coqBinOp[be.Op] \o <<" ">> \o Coq(be.Y)
    ELSE <<PanicRune>>

NotExpr_Coq(e) == <<"~", " ">> \o addParens(Coq(e.X))

TupleExpr_Coq(te) == <<"(">> \o indent(1, Join(Map(Coq, te.elems), <<",", " ">>)) \o <<")">>

\* Binding_AddTo with the two names of a tuple binding exchanged
Binding_AddTo_swapped(b, pp) ==
    IF isAnonymous(b) THEN Add(pp, Coq(b.Expr) \o <<";", ";">>)
    ELSE IF Len(b.Names) = 1
    THEN Add(pp, <<"l", "e", "t", ":", " ">> \o binder(b.Names[1]) \o <<" ", ":", "=", " ">> \o Coq(b.Expr) \o <<" ", "i", "n">>)
    ELSE IF Len(b.Names) = 2
    THEN Add(pp, <<"l", "e", "t", ":", " ", "(">> \o binder(b.Names[2]) \o <<",", " ">> \o binder(b.Names[1])
                 \o <<")", " ", ":", "=", " ">> \o Coq(b.Expr) \o <<" ", "i", "n">>)
    ELSE appendLine(pp, <<PanicRune>>)

\* AddTo adds a binding as a non-terminal line to a block
Binding_AddTo(b, pp) ==
    IF isAnonymous(b) THEN Add(pp, Coq(b.Expr) \o <<";", ";">>)
    ELSE IF Len(b.Names) = 1
    THEN Add(pp, <<"l", "e", "t", ":", " ">> \o binder(b.Names[1]) \o <<" ", ":", "=", " ">> \o Coq(b.Expr) \o <<" ", "i", "n">>)
    ELSE IF Len(b.Names) = 2
    THEN Add(pp, <<"l", "e", "t", ":", " ", "(">> \o binder(b.Names[1]) \o <<",", " ">> \o binder(b.Names[2])
                 \o <<")", " ", ":", "=", " ">> \o Coq(b.Expr) \o <<" ", "i", "n">>)
    ELSE appendLine(pp, <<PanicRune>>)

RECURSIVE BlockExpr_bindings(_, _, _)
\* the loop over be.Bindings, from index n on
BlockExpr_bindings(pp, bindings, n) ==
    IF n > Len(bindings) THEN pp
    ELSE LET b == bindings[n]
         IN  IF n = Len(bindings)
             THEN BlockExpr_bindings(AddLine(pp, Coq(b.Expr)), bindings, n + 1)
             ELSE BlockExpr_bindings(Binding_AddTo(b, pp), bindings, n + 1)

BlockExpr_Coq(be) == Build(BlockExpr_bindings(NewBuffer, be.Bindings, 1))

DerefExpr_Coq(e) == <<"!">> \o addParens(Coq(e.X))

RefExpr_Coq(e) == CallExpr_Coq(NewCallExpr(<<"r", "e", "f">>, <<e.X>>))

StoreStmt_Coq(e) == Coq(e.Dst) \o <<" ", "<", "-", " ">> \o Coq(e.X)

\* flowBranch taking back one column more than the compact form added
flowBranch_overDedent(pp, prefix, e, suffix) ==
    CHOOSE r \in
        {IF ~ContainsRune(code, "\n")
         THEN Indent(Block(pp, prefix \o <<" ">>, code), -(Len(prefix) + 2))
         ELSE Indent(AddLine(Indent(AddLine(pp, prefix), 2), code), -2) :
           code \in {Coq(e) \o suffix}} : TRUE

flowBranch(pp, prefix, e, suffix) ==
    CHOOSE r \in
        {IF ~ContainsRune(code, "\n")
         THEN Indent(Block(pp, prefix \o <<" ">>, code), -(Len(prefix) + 1))
         ELSE Indent(AddLine(Indent(AddLine(pp, prefix), 2), code), -2) :
           code \in {Coq(e) \o suffix}} : TRUE

\* IfExpr_Coq with the closing parenthesis after the then-branch
IfExpr_Coq_closeAfterThen(ife) ==
    LET pp1 == Add(NewBuffer, <<"(", "i", "f", ":", " ">> \o Coq(ife.Cond))
        pp2 == flowBranch(pp1, <<"t", "h", "e", "n">>, ife.Then, <<")">>)
        pp3 == flowBranch(pp2, <<"e", "l", "s", "e">>, ife.Else, <<>>)
    IN  Build(pp3)

IfExpr_Coq(ife) ==
    LET pp1 == Add(NewBuffer, <<"(", "i", "f", ":", " ">> \o Coq(ife.Cond))
        pp2 == flowBranch(pp1, <<"t", "h", "e", "n">>, ife.Then, <<>>)
        pp3 == flowBranch(pp2, <<"e", "l", "s", "e">>, ife.Else, <<")">>)
    IN  Build(pp3)

HashTableInsert_Coq(e) == <<"(", "f", "u", "n", " ", "_", " ", "=", ">", " ", "S", "o", "m", "e", " ">> \o addParens(Coq(e.Value)) \o <<")">>

\* ForLoopExpr_Coq with the body on the lines after the header at the header's indent
ForLoopExpr_Coq_bodyNotIndented(e) ==
    LET pp1 == Binding_AddTo(e.Init, NewBuffer)
        pp2 == Add(pp1, <<"(", "f", "o", "r", ":", " ", "(">> \o Coq(e.Cond) \o <<")", ";", " ", "(">> \o Coq(e.Post) \o <<")", " ", ":", "=">>)
        pp4 == Add(pp2, BlockExpr_Coq(e.Body) \o <<")">>)
    IN  Build(pp4)

ForLoopExpr_Coq(e) ==
    LET pp1 == Binding_AddTo(e.Init, NewBuffer)
        pp2 == Add(pp1, <<"(", "f", "o", "r", ":", " ", "(">> \o Coq(e.Cond) \o <<")", ";", " ", "(">> \o Coq(e.Post) \o <<")", " ", ":", "=">>)
        pp3 == Indent(pp2, 2)
        pp4 == Add(pp3, BlockExpr_Coq(e.Body) \o <<")">>)
    IN  Build(pp4)

MapIterExpr_Coq(e) ==
    LET pp1 == Add(NewBuffer, <<"D", "a", "t", "a", ".", "m", "a", "p", "I", "t", "e", "r", " ">> \o addParens(Coq(e.Map)) \o <<" ", "(", "U+03BB", ":", " ">>
                     \o binder(e.KeyIdent) \o <<" ">> \o binder(e.ValueIdent) \o <<",">>)
        pp2 == Indent(pp1, 2)
        pp3 == Add(pp2, BlockExpr_Coq(e.Body) \o <<")">>)
    IN  Build(pp3)

SpawnExpr_Coq(e) == Build(Block(NewBuffer, <<"F", "o", "r", "k", " ", "(">>, BlockExpr_Coq(e.Body) \o <<")">>))

Coq(e) ==
    CASE e.kind = "TypeIdent" -> TypeIdent_Coq(e)
      [] e.kind = "StructName" -> StructName_Coq(e)
      [] e.kind = "MapType" -> MapType_Coq(e)
      [] e.kind = "SliceType" -> SliceType_Coq(e)
      [] e.kind = "TupleType" -> TupleType_Coq(e)
      [] e.kind = "PtrType" -> PtrType_Coq(e)
      [] e.kind = "GallinaIdent" -> GallinaIdent_Coq(e)
      [] e.kind = "IdentExpr" -> IdentExpr_Coq(e)
      [] e.kind = "GallinaString" -> GallinaString_Coq(e)
      [] e.kind = "CallExpr" -> CallExpr_Coq(e)
      [] e.kind = "StructFieldAccessExpr" -> StructFieldAccessExpr_Coq(e)
      [] e.kind = "ReturnExpr" -> ReturnExpr_Coq(e)
      [] e.kind = "StructLiteral" -> StructLiteral_Coq(e)
      [] e.kind = "BoolLiteral" -> BoolLiteral_Coq(e)
      [] e.kind = "UnitLiteral" -> UnitLiteral_Coq(e)
      [] e.kind = "IntLiteral" -> IntLiteral_Coq(e)
      [] e.kind = "Int32Literal" -> Int32Literal_Coq(e)
      [] e.kind = "StringLiteral" -> StringLiteral_Coq(e)
      [] e.kind = "BinaryExpr" -> BinaryExpr_Coq(e)
      [] e.kind = "NotExpr" -> NotExpr_Coq(e)
      [] e.kind = "TupleExpr" -> TupleExpr_Coq(e)
      [] e.kind = "BlockExpr" -> BlockExpr_Coq(e)
      [] e.kind = "DerefExpr" -> DerefExpr_Coq(e)
      [] e.kind = "RefExpr" -> RefExpr_Coq(e)
      [] e.kind = "StoreStmt" -> StoreStmt_Coq(e)
      [] e.kind = "IfExpr" -> IfExpr_Coq(e)
      [] e.kind = "HashTableInsert" -> HashTableInsert_Coq(e)
      [] e.kind = "ForLoopExpr" -> ForLoopExpr_Coq(e)
      [] e.kind = "MapIterExpr" -> MapIterExpr_Coq(e)
      [] e.kind = "SpawnExpr" -> SpawnExpr_Coq(e)

(***************************************************************************)
(* Declarations and CoqDecl().                                             *)
(***************************************************************************)
StructDecl(name, fields, comment) ==
    [kind |-> "StructDecl", Name |-> name, Fields |-> fields, Comment |-> comment]

TypeDecl(name, body) == [kind |-> "TypeDecl", Name |-> name, Body |-> body]

FuncDecl(name, args, returnType, body, comment, addTypes) ==
    [kind |-> "FuncDecl", Name |-> name, Args |-> args, ReturnType |-> returnType,
     Body |-> body, Comment |-> comment, AddTypes |-> addTypes]

CommentDecl(s) == [kind |-> "CommentDecl", text |-> s]

NewComment(s) == CommentDecl(TrimRight(s, {" ", "\t", "\n"}))

ConstDecl(name, type, val, comment) ==
    [kind |-> "ConstDecl", Name |-> name, Type |-> type, Val |-> val,
     Comment |-> comment]

CoqBinder(d) == binder(d.Name)

RECURSIVE StructDecl_fields(_, _, _)
\* the loop over d.Fields, from index k on
StructDecl_fields(pp, fields, k) ==
    IF k > Len(fields) THEN pp
    ELSE LET fd == fields[k]
             sep == IF k = Len(fields) THEN <<>> ELSE <<";">>
         IN  StructDecl_fields(
                 Add(pp, quote(fd.Name) \o <<" ", ":", ":", " ">> \o Coq(fd.Type) \o sep),
                 fields, k + 1)

StructDecl_CoqDecl(d) ==
    LET pp1 == Indent(Add(NewBuffer, <<"M", "o", "d", "u", "l", "e", " ">> \o d.Name \o <<".">>), 2)
        pp2 == AddComment(pp1, d.Comment)
        pp3 == Indent(AddLine(pp2, <<"D", "e", "f", "i", "n", "i", "t", "i", "o", "n", " ", "S", " ", ":", "=", " ", "s", "t", "r", "u", "c", "t", ".", "d", "e", "c", "l", " ", "[">>), 2)
        pp4 == Indent(StructDecl_fields(pp3, d.Fields, 1), -2)
        pp5 == AddLine(pp4, <<"]", ".">>)
        pp6 == AddLine(pp5, <<"D", "e", "f", "i", "n", "i", "t", "i", "o", "n", " ", "T", ":", " ", "t", "y", " ", ":", "=", " ", "s", "t", "r", "u", "c", "t", ".", "t", " ", "S", ".">>)
        pp7 == AddLine(pp6, <<"D", "e", "f", "i", "n", "i", "t", "i", "o", "n", " ", "P", "t", "r", ":", " ", "t", "y", " ", ":", "=", " ", "s", "t", "r", "u", "c", "t", ".", "p", "t", "r", "T", " ", "S", ".">>)
        pp8 == Indent(AddLine(pp7, <<"S", "e", "c", "t", "i", "o", "n", " ", "f", "i", "e", "l", "d", "s", ".">>), 2)
        pp9 == AddLine(pp8, <<"C", "o", "n", "t", "e", "x", "t", " ", "U+0060", "{", "e", "x", "t", "_", "t", "y", ":", " ", "e", "x", "t", "_", "t", "y", "p", "e", "s", "}", ".">>)
        pp10 == Indent(AddLine(pp9, <<"D", "e", "f", "i", "n", "i", "t", "i", "o", "n", " ", "g", "e", "t", " ", ":", "=", " ", "s", "t", "r", "u", "c", "t", ".", "g", "e", "t", " ", "S", ".">>), -2)
        pp11 == Indent(AddLine(pp10, <<"E", "n", "d", " ", "f", "i", "e", "l", "d", "s", ".">>), -2)
        pp12 == Add(pp11, <<"E", "n", "d", " ">> \o d.Name \o <<".">>)
    IN  Build(pp12)

TypeDecl_CoqDecl(d) ==
    Build(Add(NewBuffer, <<"D", "e", "f", "i", "n", "i", "t", "i", "o", "n", " ">> \o d.Name \o <<":", " ", "t", "y", " ", ":", "=", " ">> \o Coq(d.Body) \o <<".">>))

\* Signature without the wildcard binder of an empty parameter list
Signature_noWildcard(d) == Join(Map(CoqBinder, d.Args), <<" ">>)

Signature(d) ==
    LET args == Map(CoqBinder, d.Args)
    IN  Join(IF Len(args) = 0 THEN <<<<"<", ">">>>> ELSE args, <<" ">>)

FuncDecl_Type(d) ==
    LET types == Map(LAMBDA a : Coq(a.Type), d.Args)
                 \o (IF Len(d.Args) = 0 THEN <<Coq(TypeIdent(<<"u", "n", "i", "t", "T">>))>> ELSE <<>>)
                 \o <<Coq(d.ReturnType)>>
    IN  Join(types, <<" ", "-", ">", " ">>)

\* FuncDecl_CoqDecl without the period that ends the body
FuncDecl_CoqDecl_noPeriod(d) ==
    LET pp1 == AddComment(NewBuffer, d.Comment)
        pp2 == Add(pp1, <<"D", "e", "f", "i", "n", "i", "t", "i", "o", "n", " ">> \o d.Name \o <<":", " ", "v", "a", "l", " ", ":", "=">>)
        pp3 == Add(Indent(pp2, 2), <<"U+03BB", ":", " ">> \o Signature(d) \o <<",">>)
        pp4 == AddLine(Indent(pp3, 2), Coq(d.Body))
        pp5 == Indent(Indent(pp4, -2), -2)
        pp6 == IF d.AddTypes
               THEN Add(AddLine(Add(pp5, <<"T", "h", "e", "o", "r", "e", "m", " ">> \o d.Name \o <<"_", "t", ":", " ", "U+22A2", " ">> \o d.Name
                                         \o <<" ", ":", " ", "(">> \o FuncDecl_Type(d) \o <<")", ".">>),
                                <<"P", "r", "o", "o", "f", ".", " ", "t", "y", "p", "e", "c", "h", "e", "c", "k", ".", " ", "Q", "e", "d", ".">>),
                        <<"H", "i", "n", "t", " ", "R", "e", "s", "o", "l", "v", "e", " ">> \o d.Name \o <<"_", "t", " ", ":", " ", "t", "y", "p", "e", "s", ".">>)
               ELSE pp5
    IN  Build(pp6)

FuncDecl_CoqDecl(d) ==
    LET pp1 == AddComment(NewBuffer, d.Comment)
        pp2 == Add(pp1, <<"D", "e", "f", "i", "n", "i", "t", "i", "o", "n", " ">> \o d.Name \o <<":", " ", "v", "a", "l", " ", ":", "=">>)
        pp3 == Add(Indent(pp2, 2), <<"U+03BB", ":", " ">> \o Signature(d) \o <<",">>)
        pp4 == AddLine(Indent(pp3, 2), Coq(d.Body) \o <<".">>)
        \* the two deferred Indent(-2) run when the closure returns
        pp5 == Indent(Indent(pp4, -2), -2)
        pp6 == IF d.AddTypes
               THEN Add(AddLine(Add(pp5, <<"T", "h", "e", "o", "r", "e", "m", " ">> \o d.Name \o <<"_", "t", ":", " ", "U+22A2", " ">> \o d.Name
                                         \o <<" ", ":", " ", "(">> \o FuncDecl_Type(d) \o <<")", ".">>),
                                <<"P", "r", "o", "o", "f", ".", " ", "t", "y", "p", "e", "c", "h", "e", "c", "k", ".", " ", "Q", "e", "d", ".">>),
                        <<"H", "i", "n", "t", " ", "R", "e", "s", "o", "l", "v", "e", " ">> \o d.Name \o <<"_", "t", " ", ":", " ", "t", "y", "p", "e", "s", ".">>)
               ELSE pp5
    IN  Build(pp6)

CommentDecl_CoqDecl(d) == Build(AddComment(NewBuffer, d.text))

ConstDecl_CoqDecl(d) ==
    LET pp1 == AddComment(NewBuffer, d.Comment)
        pp2 == Block(pp1, <<"D", "e", "f", "i", "n", "i", "t", "i", "o", "n", " ">>, d.Name \o <<" ", ":", " ", "e", "x", "p", "r", " ", ":", "=", " ">> \o Coq(d.Val) \o <<".">>)
    IN  Build(pp2)

CoqDecl(d) ==
    CASE d.kind = "StructDecl" -> StructDecl_CoqDecl(d)
      [] d.kind = "TypeDecl" -> TypeDecl_CoqDecl(d)
      [] d.kind = "FuncDecl" -> FuncDecl_CoqDecl(d)
      [] d.kind = "CommentDecl" -> CommentDecl_CoqDecl(d)
      [] d.kind = "ConstDecl" -> ConstDecl_CoqDecl(d)

StructMethod(structName, methodName) == structName \o <<"_", "_">> \o methodName

importHeader ==
    <<"\n", "F", "r", "o", "m", " ", "P", "e", "r", "e", "n", "n", "i", "a", "l", ".", "g", "o", "_", "l", "a", "n", "g", " ", "R", "e", "q", "u", "i", "r", "e", " ", "I", "m", "p", "o", "r", "t", " ", "p", "r", "e", "l", "u", "d", "e", ".", "\n", "\n", "(", "*", " ", "d", "i", "s", "k", " ", "F", "F", "I", " ", "*", ")", "\n", "F", "r", "o", "m", " ", "P", "e", "r", "e", "n", "n", "i", "a", "l", ".", "g", "o", "_", "l", "a", "n", "g", " ", "R", "e", "q", "u", "i", "r", "e", " ", "I", "m", "p", "o", "r", "t", " ", "f", "f", "i", ".", "d", "i", "s", "k", "_", "p", "r", "e", "l", "u", "d", "e", ".", "\n">>

File(goPackage, decls) == [GoPackage |-> goPackage, Decls |-> decls]

autogeneratedNotice(f) == CommentDecl(<<"a", "u", "t", "o", "g", "e", "n", "e", "r", "a", "t", "e", "d", " ", "f", "r", "o", "m", " ">> \o f.GoPackage)

\* fmt.Fprintln(w, s): the text after the call
Fprintln(writer, s) == writer \o s \o <<"\n">>

(***************************************************************************)
(* The nodes the model constructs: every variant, applied to a few        *)
(* operands chosen for how they render (with or without a space, on one   *)
(* line or several, enclosed in parentheses or not).                       *)
(***************************************************************************)
SeqsUpTo(S, n) == UNION {[1..k -> S] : k \in 0..n}

NamePool == <<<<"a">>, <<"_">>, <<"c">>, <<"d">>, <<"e">>>>

NameLists == {SubSeq(NamePool, 1, n) : n \in 0..MaxNames}

\* "x"
sVar == IdentExpr(<<"x">>)
\* #(U32 1)
sInt32 == Int32Literal(1)
\* ("x", <>)
sTuple == TupleExpr(<<sVar, IdentExpr(<<"_">>)>>)
\* two lines without a space
sBlock == BlockExpr(<<NewAnon(sVar), NewAnon(GallinaIdent(<<"S", "k", "i", "p">>))>>)
\* ("x", <>) + ("x", <>)
sSum == BinaryExpr(sTuple, OpPlus, sTuple)
\* an if with a block branch, inside a loop body
sIf == IfExpr(sVar, sBlock, sInt32)
sLoop == ForLoopExpr(Binding(<<<<"i">>>>, IntLiteral(0)),
                     BinaryExpr(IdentExpr(<<"i">>), OpLessThan, IntLiteral(10)),
                     BinaryExpr(IdentExpr(<<"i">>), OpPlus, IntLiteral(1)),
                     BlockExpr(<<NewAnon(sIf), NewAnon(GallinaIdent(<<"C", "o", "n", "t", "i", "n", "u", "e">>))>>))

Small == {sVar, sInt32, sBlock}

Samples == Small \cup {IdentExpr(<<"_">>), sTuple, sSum, sIf, sLoop}

BindingSamples == {Binding(names, e) : names \in NameLists, e \in Small}

BlockSamples == {BlockExpr(<<>>), sBlock, BlockExpr(<<NewAnon(sLoop)>>)}

Atoms == {GallinaIdent(<<"S", "k", "i", "p">>), IdentExpr(<<"x">>), IdentExpr(<<"_">>),
          GallinaString(<<"f">>), GallinaString(<<"_">>),
          BoolLiteral(TRUE), BoolLiteral(FALSE), Tt,
          IntLiteral(0), IntLiteral(4096), Int32Literal(1),
          StringLiteral(<<>>), StringLiteral(<<"a", " ", "b">>)}

\* the operators a BinaryExpr can carry: the nine constants and one more int
Ops == OpPlus..(OpMul + 1)

Types0 == {TypeIdent(<<"u", "i", "n", "t", "6", "4">>), StructName(<<"T">>)}

Types1 == Types0 \cup {MapType(t) : t \in Types0} \cup {SliceType(t) : t \in Types0}
          \cup {PtrType(t) : t \in Types0}
          \cup {TupleType(ts) : ts \in SeqsUpTo(Types0, MaxArgs)}

Types2 == Types1 \cup {MapType(t) : t \in Types1} \cup {SliceType(t) : t \in Types1}
          \cup {PtrType(t) : t \in Types1}

FieldNames == <<<<"a">>, <<"_">>, <<"c">>>>

\* field lists with distinct names, in declaration order
FieldLists == {[k \in 1..Len(ts) |-> FieldDecl(FieldNames[k], ts[k])] :
                 ts \in SeqsUpTo(Types0, MaxFields)}

Comments == {<<>>, <<"c">>, <<"a", " ", "\n", "b">>, <<"a", "\n", "\t", "b">>}

FuncDecls == {FuncDecl(<<"f">>, args, rt, body, c, addTypes) :
                args \in FieldLists, rt \in Types0, body \in Samples,
                c \in Comments, addTypes \in BOOLEAN}

StructDecls == {StructDecl(<<"T">>, fields, c) : fields \in FieldLists, c \in Comments}

TypeDecls == {TypeDecl(<<"U">>, t) : t \in Types2}

ConstDecls == {ConstDecl(<<"K">>, TypeIdent(<<"u", "i", "n", "t", "6", "4">>), v, c) :
                 v \in Samples, c \in Comments}

CommentDecls == {CommentDecl(c) : c \in Comments}
                \cup {NewComment(c \o trail) : c \in Comments, trail \in {<<" ">>, <<"\n", "\n">>}}

\* declarations a translated package is assembled from
DeclSamples ==
    {FuncDecl(<<"f">>, <<>>, TypeIdent(<<"u", "n", "i", "t", "T">>), Tt, <<>>, FALSE),
     FuncDecl(<<"g">>, <<FieldDecl(<<"p">>, TypeIdent(<<"u", "i", "n", "t", "6", "4">>))>>, StructName(<<"T">>), sIf,
              <<"a", " ", "\n", "b">>, TRUE),
     StructDecl(<<"T">>, <<FieldDecl(<<"a">>, TypeIdent(<<"u", "i", "n", "t", "6", "4">>))>>, <<"c">>),
     TypeDecl(<<"U">>, SliceType(TypeIdent(<<"u", "i", "n", "t", "6", "4">>))),
     ConstDecl(<<"K">>, TypeIdent(<<"s", "t", "r", "i", "n", "g">>), StringLiteral(<<"a", "\t", "b">>), <<>>),
     CommentDecl(<<>>),
     NewComment(<<"c", "\n">>)}

IsDecl(n) == n.kind \in {"StructDecl", "TypeDecl", "FuncDecl", "CommentDecl", "ConstDecl"}

(***************************************************************************)
(* The package's client: it constructs one node and renders it.            *)
(***************************************************************************)
Init ==
    /\ pc = "start"
    /\ ast = Tt
    /\ calls = <<>>
    /\ out = <<>>
    /\ buffer = NewBuffer
    /\ lastCall = [op |-> "none", prefix |-> <<>>, text |-> <<>>, spaces |-> 0,
                   before |-> NewBuffer, n |-> 0]
    /\ built = <<>>
    /\ file = File(<<"p">>, <<>>)
    /\ translateErr = FALSE
    /\ outFile = <<"-">>
    /\ created = FALSE
    /\ w = <<>>
    /\ i = 0
    /\ stderr = <<>>
    /\ exitCode = -1

\* the client holds the node it constructed
Built ==
    /\ pc' = "built"
    /\ UNCHANGED <<calls, out>>
    /\ UNCHANGED driverVars
    /\ UNCHANGED bufVars

BuildAtom ==
    /\ pc = "start"
    /\ ast' \in Atoms
    /\ Built

BuildType ==
    /\ pc = "start"
    /\ ast' \in Types2
    /\ Built

BuildCallExpr ==
    /\ pc = "start"
    /\ ast' \in {CallExpr(<<"f">>, args) : args \in SeqsUpTo(Samples, MaxArgs)}
                   \cup {NewCallExpr(<<"f">>, <<>>)}
    /\ Built

BuildStructFieldAccessExpr ==
    /\ pc = "start"
    /\ ast' \in {StructFieldAccessExpr(<<"T">>, <<"a">>, x, tp) :
                   x \in Samples, tp \in BOOLEAN}
    /\ Built

BuildReturnExpr ==
    /\ pc = "start"
    /\ ast' \in {ReturnExpr(x) : x \in Samples}
    /\ Built

BuildBinaryExpr ==
    /\ pc = "start"
    /\ ast' \in {BinaryExpr(x, op, y) : x \in Small, op \in Ops, y \in Small}
    /\ Built

BuildNotExpr ==
    /\ pc = "start"
    /\ ast' \in {NotExpr(x) : x \in Samples}
    /\ Built

BuildTupleExpr ==
    /\ pc = "start"
    /\ ast' \in {NewTuple(es) : es \in SeqsUpTo(Small, MaxArgs)}
    /\ Built

BuildBlockExpr ==
    /\ pc = "start"
    /\ ast' \in {BlockExpr(bs) : bs \in SeqsUpTo(BindingSamples, MaxBindings)}
    /\ Built

BuildDerefExpr ==
    /\ pc = "start"
    /\ ast' \in {DerefExpr(x) : x \in Samples}
    /\ Built

BuildRefExpr ==
    /\ pc = "start"
    /\ ast' \in {RefExpr(x) : x \in Samples}
    /\ Built

BuildStoreStmt ==
    /\ pc = "start"
    /\ ast' \in {StoreStmt(d, x) : d \in Small, x \in Small}
    /\ Built

BuildIfExpr ==
    /\ pc = "start"
    /\ ast' \in {IfExpr(c, t, e) : c \in Small, t \in Samples, e \in Samples}
    /\ Built

BuildHashTableInsert ==
    /\ pc = "start"
    /\ ast' \in {HashTableInsert(x) : x \in Samples}
    /\ Built

BuildForLoopExpr ==
    /\ pc = "start"
    /\ ast' \in {ForLoopExpr(b, c, p, body) :
                   b \in BindingSamples, c \in Small, p \in Small,
                   body \in BlockSamples}
    /\ Built

BuildMapIterExpr ==
    /\ pc = "start"
    /\ ast' \in {MapIterExpr(k, v, m, body) :
                   k \in {<<"k">>, <<"_">>}, v \in {<<"v">>, <<"_">>}, m \in Small,
                   body \in BlockSamples}
    /\ Built

BuildSpawnExpr ==
    /\ pc = "start"
    /\ ast' \in {SpawnExpr(body) : body \in BlockSamples}
    /\ Built

BuildFuncDecl ==
    /\ pc = "start"
    /\ ast' \in FuncDecls
    /\ Built

BuildStructDecl ==
    /\ pc = "start"
    /\ ast' \in StructDecls
    /\ Built

BuildTypeDecl ==
    /\ pc = "start"
    /\ ast' \in TypeDecls
    /\ Built

BuildConstDecl ==
    /\ pc = "start"
    /\ ast' \in ConstDecls
    /\ Built

BuildCommentDecl ==
    /\ pc = "start"
    /\ ast' \in CommentDecls
    /\ Built

\* NewStructLiteral, with the Allocation flag the translator sets
BuildStructLiteral ==
    /\ pc = "start"
    /\ \E allocation \in BOOLEAN :
          ast' = [NewStructLiteral(<<"T">>) EXCEPT !.Allocation = allocation]
    /\ calls' = <<>>
    /\ pc' = "literal"
    /\ UNCHANGED out
    /\ UNCHANGED driverVars
    /\ UNCHANGED bufVars

CallAddField ==
    /\ pc = "literal"
    /\ Len(calls) < MaxFields
    /\ \E field \in {<<"a">>, <<"_">>}, value \in Small :
          /\ ast' = AddField(ast, field, value)
          /\ calls' = Append(calls, fieldVal(field, value))
    /\ UNCHANGED <<pc, out>>
    /\ UNCHANGED driverVars
    /\ UNCHANGED bufVars

Render ==
    /\ pc \in {"built", "literal"}
    /\ out' = IF IsDecl(ast) THEN CoqDecl(ast) ELSE Coq(ast)
    /\ pc' = "rendered"
    /\ UNCHANGED <<ast, calls>>
    /\ UNCHANGED driverVars
    /\ UNCHANGED bufVars

Client ==
    \/ BuildAtom
    \/ BuildType
    \/ BuildCallExpr
    \/ BuildStructFieldAccessExpr
    \/ BuildReturnExpr
    \/ BuildStructLiteral
    \/ CallAddField
    \/ BuildBinaryExpr
    \/ BuildNotExpr
    \/ BuildTupleExpr
    \/ BuildBlockExpr
    \/ BuildDerefExpr
    \/ BuildRefExpr
    \/ BuildStoreStmt
    \/ BuildIfExpr
    \/ BuildHashTableInsert
    \/ BuildForLoopExpr
    \/ BuildMapIterExpr
    \/ BuildSpawnExpr
    \/ BuildFuncDecl
    \/ BuildStructDecl
    \/ BuildTypeDecl
    \/ BuildConstDecl
    \/ BuildCommentDecl
    \/ Render

(***************************************************************************)
(* A user of the buffer inside the package: a sequence of calls on one    *)
(* buffer, as the Coq() and CoqDecl() methods make them.  A call that     *)
(* panics (a line added at a negative indent level) ends the sequence     *)
(* before the buffer is touched.                                           *)
(***************************************************************************)
\* texts handed to the buffer: empty, one line, lines with an empty and an indented one
Texts == {<<>>, <<"a">>, <<"a", "\n", "\n", " ", "b">>}

\* literal text of a format before its %s verb
Formats == {<<"p", " ">>}

Prefixes == {<<"(", "*", " ">>, <<"p", " ">>}

Called(op, prefix, text, spaces) ==
    lastCall' = [op |-> op, prefix |-> prefix, text |-> text, spaces |-> spaces,
                 before |-> buffer, n |-> lastCall.n + 1]

Returns(result) ==
    IF \E k \in 1..Len(result.lines) : Panicked(result.lines[k])
    THEN pc' = "panicked" /\ UNCHANGED buffer
    ELSE pc' = "buffer" /\ buffer' = result

buffer_AddLine ==
    /\ pc \in {"start", "buffer"}
    /\ lastCall.n < MaxCalls
    /\ \E line \in Texts :
          /\ Returns(AddLine(buffer, line))
          /\ Called("AddLine", <<>>, line, 0)
    /\ UNCHANGED <<ast, calls, out, built>>
    /\ UNCHANGED driverVars

\* pp.Add(prefix + "%s", arg)
buffer_Add ==
    /\ pc \in {"start", "buffer"}
    /\ lastCall.n < MaxCalls
    /\ \E prefix \in Formats, arg \in Texts :
          /\ Returns(Add(buffer, prefix \o arg))
          /\ Called("Add", prefix, arg, 0)
    /\ UNCHANGED <<ast, calls, out, built>>
    /\ UNCHANGED driverVars

buffer_Indent ==
    /\ pc \in {"start", "buffer"}
    /\ lastCall.n < MaxCalls
    /\ \E spaces \in {2, -2} :
          /\ Returns(Indent(buffer, spaces))
          /\ Called("Indent", <<>>, <<>>, spaces)
    /\ UNCHANGED <<ast, calls, out, built>>
    /\ UNCHANGED driverVars

\* pp.Block(prefix, "%s", body)
buffer_Block ==
    /\ pc \in {"start", "buffer"}
    /\ lastCall.n < MaxCalls
    /\ \E prefix \in Prefixes, body \in Texts :
          /\ Returns(Block(buffer, prefix, body))
          /\ Called("Block", prefix, body, 0)
    /\ UNCHANGED <<ast, calls, out, built>>
    /\ UNCHANGED driverVars

buffer_AddComment ==
    /\ pc \in {"start", "buffer"}
    /\ lastCall.n < MaxCalls
    /\ \E c \in Texts :
          /\ Returns(AddComment(buffer, c))
          /\ Called("AddComment", <<>>, c, 0)
    /\ UNCHANGED <<ast, calls, out, built>>
    /\ UNCHANGED driverVars

buffer_Build ==
    /\ pc \in {"start", "buffer"}
    /\ lastCall.n < MaxCalls
    /\ built' = Build(buffer)
    /\ Returns(buffer)
    /\ Called("Build", <<>>, <<>>, 0)
    /\ UNCHANGED <<ast, calls, out>>
    /\ UNCHANGED driverVars

BufferUser ==
    \/ buffer_AddLine
    \/ buffer_Add
    \/ buffer_Indent
    \/ buffer_Block
    \/ buffer_AddComment
    \/ buffer_Build

(***************************************************************************)
(* TranslatePackage.  The translator is not part of the sources at hand;  *)
(* it is modelled from its description: it walks the package declaration  *)
(* by declaration, appends a diagnostic for what it cannot translate      *)
(* without stopping the walk, and returns an error iff a diagnostic was   *)
(* recorded, the assembled File otherwise.                                 *)
(***************************************************************************)
TranslateDecl ==
    /\ pc = "translate"
    /\ Len(file.Decls) < MaxDecls
    /\ \E d \in DeclSamples : file' = [file EXCEPT !.Decls = Append(@, d)]
    /\ UNCHANGED <<pc, translateErr, outFile, created, w, i, stderr, exitCode>>
    /\ UNCHANGED libVars

TranslateUnsupported ==
    /\ pc = "translate"
    /\ ~translateErr
    /\ translateErr' = TRUE
    /\ UNCHANGED <<pc, file, outFile, created, w, i, stderr, exitCode>>
    /\ UNCHANGED libVars

TranslateReturn ==
    /\ pc = "translate"
    /\ \E goPackage \in {<<"p">>, <<"a", "/", "b">>} : file' = [file EXCEPT !.GoPackage = goPackage]
    /\ pc' = "translated"
    /\ UNCHANGED <<translateErr, outFile, created, w, i, stderr, exitCode>>
    /\ UNCHANGED libVars

(***************************************************************************)
(* main: the command-line driver.                                          *)
(***************************************************************************)
\* flag.Parse() and the check of flag.NArg()
main_ParseFlags ==
    /\ pc = "start"
    /\ \E nArg \in 0..2, o \in {<<"-">>, <<"o", ".", "v">>} :
          /\ outFile' = o
          /\ IF nArg # 1
             THEN /\ stderr' = Append(stderr, <<"U", "s", "a", "g", "e", ":", " ", "g", "o", "o", "s", "e", " ", "<", "p", "a", "t", "h", " ", "t", "o", " ", "s", "o", "u", "r", "c", "e", " ", "d", "i", "r", ">">>)
                  /\ exitCode' = 1
                  /\ pc' = "exit"
             ELSE /\ pc' = "translate"
                  /\ UNCHANGED <<stderr, exitCode>>
    /\ UNCHANGED <<file, translateErr, created, w, i>>
    /\ UNCHANGED libVars

\* main_CheckErr without the check of err
main_CheckErr_unchecked ==
    /\ pc = "translated"
    /\ pc' = "open"
    /\ UNCHANGED <<file, translateErr, outFile, created, w, i, stderr, exitCode>>
    /\ UNCHANGED libVars

\* if err != nil { fmt.Fprintln(os.Stderr, err.Error()); os.Exit(1) }
main_CheckErr ==
    /\ pc = "translated"
    /\ IF translateErr
       THEN /\ stderr' = Append(stderr, <<"e", "r", "r", ".", "E", "r", "r", "o", "r", "(", ")">>)
            /\ exitCode' = 1
            /\ pc' = "exit"
       ELSE /\ pc' = "open"
            /\ UNCHANGED <<stderr, exitCode>>
    /\ UNCHANGED <<file, translateErr, outFile, created, w, i>>
    /\ UNCHANGED libVars

\* the choice of the writer; os.Create may fail
main_Open ==
    /\ pc = "open"
    /\ IF outFile = <<"-">>
       THEN /\ pc' = "Write"
            /\ UNCHANGED <<created, stderr, exitCode>>
       ELSE \E createFails \in BOOLEAN :
              IF createFails
              THEN /\ stderr' = stderr \o <<<<"e", "r", "r", ".", "E", "r", "r", "o", "r", "(", ")">>, <<"c", "o", "u", "l", "d", " ", "n", "o", "t", " ", "w", "r", "i", "t", "e", " ", "o", "u", "t", "p", "u", "t">>>>
                   /\ exitCode' = 1
                   /\ pc' = "exit"
                   /\ UNCHANGED created
              ELSE /\ created' = TRUE
                   /\ pc' = "Write"
                   /\ UNCHANGED <<stderr, exitCode>>
    /\ UNCHANGED <<file, translateErr, outFile, w, i>>
    /\ UNCHANGED libVars

(***************************************************************************)
(* File.Write, one step per Fprintln group.  Write errors are not looked  *)
(* at by the code; the writer is taken to accept every write.              *)
(***************************************************************************)
\* the notice, the import header and the blank line
Write_Header ==
    /\ pc = "Write"
    /\ w' = Fprintln(Fprintln(Fprintln(w, CoqDecl(autogeneratedNotice(file))),
                               Trim(importHeader, {"\n"})),
                      <<>>)
    /\ i' = 0
    /\ pc' = "Write_loop"
    /\ UNCHANGED <<file, translateErr, outFile, created, stderr, exitCode>>
    /\ UNCHANGED libVars

\* Write_Decl with a blank line after every declaration, the last one too
Write_Decl_blankAfterLast ==
    /\ pc = "Write_loop"
    /\ i < Len(file.Decls)
    /\ \E text \in {CoqDecl(file.Decls[i + 1])} :
           IF Panicked(text)
           THEN /\ stderr' = Append(stderr, <<"p", "a", "n", "i", "c">>)
                /\ exitCode' = 2
                /\ pc' = "exit"
                /\ UNCHANGED <<w, i>>
           ELSE /\ w' = Fprintln(Fprintln(w, text), <<>>)
                /\ i' = i + 1
                /\ UNCHANGED <<pc, stderr, exitCode>>
    /\ UNCHANGED <<file, translateErr, outFile, created>>
    /\ UNCHANGED libVars

\* one iteration of the loop over f.Decls; a panic in CoqDecl ends the process
Write_Decl ==
    /\ pc = "Write_loop"
    /\ i < Len(file.Decls)
    /\ \E text \in {CoqDecl(file.Decls[i + 1])} :
           IF Panicked(text)
           THEN /\ stderr' = Append(stderr, <<"p", "a", "n", "i", "c">>)
                /\ exitCode' = 2
                /\ pc' = "exit"
                /\ UNCHANGED <<w, i>>
           ELSE /\ w' = IF i # Len(file.Decls) - 1
                         THEN Fprintln(Fprintln(w, text), <<>>)
                         ELSE Fprintln(w, text)
                /\ i' = i + 1
                /\ UNCHANGED <<pc, stderr, exitCode>>
    /\ UNCHANGED <<file, translateErr, outFile, created>>
    /\ UNCHANGED libVars

\* Write returns, main returns
main_Return ==
    /\ pc = "Write_loop"
    /\ i = Len(file.Decls)
    /\ exitCode' = 0
    /\ pc' = "exit"
    /\ UNCHANGED <<file, translateErr, outFile, created, w, i, stderr>>
    /\ UNCHANGED libVars

Driver ==
    \/ main_ParseFlags
    \/ TranslateDecl
    \/ TranslateUnsupported
    \/ TranslateReturn
    \/ main_CheckErr
    \/ main_Open
    \/ Write_Header
    \/ Write_Decl
    \/ main_Return

Next == Client \/ BufferUser \/ Driver

Spec == Init /\ [][Next]_vars

(***************************************************************************)
(* Properties.                                                             *)
(***************************************************************************)
Range(seq) == {seq[k] : k \in 1..Len(seq)}

Last(s) == s[Len(s)]

\* the lines of a text
Lines(s) == Split(s, "\n")

\* the direct sub-nodes of a node
ChildSet(n) ==
    CASE n.kind \in {"MapType", "SliceType", "PtrType"} -> {n.Value}
      [] n.kind = "TupleType" -> Range(n.types)
      [] n.kind = "CallExpr" -> Range(n.Args)
      [] n.kind = "StructFieldAccessExpr" -> {n.X}
      [] n.kind \in {"ReturnExpr", "HashTableInsert"} -> {n.Value}
      [] n.kind = "StructLiteral" -> {fv.Value : fv \in Range(n.elts)}
      [] n.kind = "BinaryExpr" -> {n.X, n.Y}
      [] n.kind \in {"NotExpr", "DerefExpr", "RefExpr"} -> {n.X}
      [] n.kind = "TupleExpr" -> Range(n.elems)
      [] n.kind = "BlockExpr" -> {b.Expr : b \in Range(n.Bindings)}
      [] n.kind = "StoreStmt" -> {n.Dst, n.X}
      [] n.kind = "IfExpr" -> {n.Cond, n.Then, n.Else}
      [] n.kind = "ForLoopExpr" -> {n.Init.Expr, n.Cond, n.Post, n.Body}
      [] n.kind = "MapIterExpr" -> {n.Map, n.Body}
      [] n.kind = "SpawnExpr" -> {n.Body}
      [] n.kind = "StructDecl" -> {fd.Type : fd \in Range(n.Fields)}
      [] n.kind = "TypeDecl" -> {n.Body}
      [] n.kind = "FuncDecl" ->
            {n.Body, n.ReturnType} \cup {fd.Type : fd \in Range(n.Args)}
      [] n.kind = "ConstDecl" -> {n.Type, n.Val}
      [] OTHER -> {}

RECURSIVE NodesOf(_)
\* a node and all the nodes below it
NodesOf(n) == {n} \cup UNION {NodesOf(c) : c \in ChildSet(n)}

\* the Bindings a node holds itself
OwnBindings(n) ==
    CASE n.kind = "BlockExpr" -> Range(n.Bindings)
      [] n.kind = "ForLoopExpr" -> {n.Init}
      [] OTHER -> {}

\* some Binding of the tree has three or more names
HasWideBinding(n) ==
    \E m \in NodesOf(n) : \E b \in OwnBindings(m) : Len(b.Names) > 2

\* some BinaryExpr of the tree carries an int that is none of the nine constants
HasUndeclaredOp(n) ==
    \E m \in NodesOf(n) : m.kind = "BinaryExpr" /\ m.Op \notin OpPlus..OpMul

WellFormed(n) == ~HasWideBinding(n) /\ ~HasUndeclaredOp(n)

(* C1: File.Write emits the notice line, the fixed import preamble, one    *)
(* blank line, then each declaration's rendering once and in list order,  *)
(* with one blank line between consecutive declarations and none after    *)
(* the last.                                                               *)
Preamble ==
    <<"F", "r", "o", "m", " ", "P", "e", "r", "e", "n", "n", "i", "a", "l", ".", "g", "o", "_", "l", "a", "n", "g", " ", "R", "e", "q", "u", "i", "r", "e", " ", "I", "m", "p", "o", "r", "t", " ", "p", "r", "e", "l", "u", "d", "e", ".", "\n", "\n", "(", "*", " ", "d", "i", "s", "k", " ", "F", "F", "I", " ", "*", ")", "\n", "F", "r", "o", "m", " ", "P", "e", "r", "e", "n", "n", "i", "a", "l", ".", "g", "o", "_", "l", "a", "n", "g", " ", "R", "e", "q", "u", "i", "r", "e", " ", "I", "m", "p", "o", "r", "t", " ", "f", "f", "i", ".", "d", "i", "s", "k", "_", "p", "r", "e", "l", "u", "d", "e", ".">>

\* the text of the first n declarations, each followed by a newline
DeclsText(f, n) ==
    IF n = 0 THEN <<>>
    ELSE Join([k \in 1..n |-> CoqDecl(f.Decls[k])], <<"\n", "\n">>) \o <<"\n">>

FileHead(f) ==
    <<"(", "*", " ", "a", "u", "t", "o", "g", "e", "n", "e", "r", "a", "t", "e", "d", " ", "f", "r", "o", "m", " ">> \o f.GoPackage \o <<" ", "*", ")", "\n">> \o Preamble \o <<"\n", "\n">>

C1_WriteOutput ==
    /\ pc = "Write_loop" =>
          w = FileHead(file) \o DeclsText(file, i)
                \o (IF 0 < i /\ i < Len(file.Decls) THEN <<"\n">> ELSE <<>>)
    /\ (pc = "exit" /\ exitCode = 0) =>
          w = FileHead(file) \o DeclsText(file, Len(file.Decls))

C1_Witness ==
    /\ pc = "exit"
    /\ exitCode = 0
    /\ Len(file.Decls) = 2
    /\ file.Decls[1] # file.Decls[2]

(* C2: the driver writes rendered output only after TranslatePackage has  *)
(* returned without error; when TranslatePackage returns an error the     *)
(* driver prints it, exits non-zero, creates no output file and writes no *)
(* text; no run both reports a failure and emits output.                   *)
C2_OutputOnlyOnSuccess ==
    /\ (created \/ w # <<>>) =>
          (~translateErr /\ pc \in {"Write", "Write_loop", "exit"})
    /\ (pc = "exit" /\ translateErr) =>
          (exitCode > 0 /\ stderr # <<>> /\ ~created /\ w = <<>>)
    /\ (pc = "exit" /\ exitCode # 0) => (~created /\ w = <<>>)
    /\ (pc = "exit" /\ exitCode = 0) => stderr = <<>>

C2_Witness ==
    /\ pc = "exit"
    /\ translateErr
    /\ Len(file.Decls) > 0
    /\ outFile # <<"-">>
    /\ exitCode = 1

(* C3: a BlockExpr with n >= 1 bindings renders bindings 1..n-1 in the   *)
(* binding form chosen by their number of names (none: expr;; one:        *)
(* let: "x" := expr in; two: let: ("a", "b") := expr in) and binding n as *)
(* its bare expression, one after the other in the original order.        *)
QuotedName(name) == IF name = <<"_">> THEN <<"<", ">">> ELSE <<"\"">> \o name \o <<"\"">>

BindingForm(b) ==
    CASE Len(b.Names) = 0 -> Coq(b.Expr) \o <<";", ";">>
      [] Len(b.Names) = 1 ->
            <<"l", "e", "t", ":", " ">> \o QuotedName(b.Names[1]) \o <<" ", ":", "=", " ">> \o Coq(b.Expr) \o <<" ", "i", "n">>
      [] Len(b.Names) = 2 ->
            <<"l", "e", "t", ":", " ", "(">> \o QuotedName(b.Names[1]) \o <<",", " ">> \o QuotedName(b.Names[2])
                \o <<")", " ", ":", "=", " ">> \o Coq(b.Expr) \o <<" ", "i", "n">>

C4_RenderNeverPanics ==
    /\ (pc = "rendered" /\ WellFormed(ast)) => ~Panicked(out)
    /\ exitCode # 2

C4_Witness ==
    /\ pc = "rendered"
    /\ ast.kind = "IfExpr"
    /\ ast.Then = sLoop
    /\ ast.Else = sIf
    /\ WellFormed(ast)
    /\ ~Panicked(out)

(* C5: a Binding with three or more names is flagged when it is           *)
(* constructed, so no text is rendered from a tree that holds one,        *)
(* whatever its position.                                                  *)
C5_WideBindingNeverRendered ==
    (pc = "rendered" /\ HasWideBinding(ast)) => Panicked(out)

(* C6: no line of the text File.Write produces contains a tab or ends in *)
(* whitespace, whatever text the declarations carry.                       *)
C6_NoTabNoTrailingWhitespace ==
    (pc = "exit" /\ exitCode = 0) =>
        \A line \in Range(Lines(w)) :
            /\ ~ContainsRune(line, "\t")
            /\ line = <<>> \/ Last(line) \notin {" ", "\t"}

(* C7: the text CoqDecl() returns ends in a period, for every Decl        *)
(* variant.                                                                *)
C7_EveryDeclEndsWithPeriod ==
    (pc = "rendered" /\ IsDecl(ast) /\ ~Panicked(out)) =>
        (out # <<>> /\ Last(out) = ".")

(* C7, amended: the text CoqDecl() returns ends in a period for a         *)
(* FuncDecl, StructDecl, TypeDecl and ConstDecl; for a CommentDecl it is  *)
(* the comment, which ends in the comment closer, or the empty text when  *)
(* the comment is empty.                                                   *)
C7_DeclEndsWithPeriod ==
    (pc = "rendered" /\ IsDecl(ast) /\ ~Panicked(out)) =>
        IF ast.kind = "CommentDecl"
        THEN IF ast.text = <<>> THEN out = <<>> ELSE HasSuffix(out, <<" ", "*", ")">>)
        ELSE out # <<>> /\ Last(out) = "."

C7_Witness ==
    /\ pc = "rendered"
    /\ ast.kind = "FuncDecl"
    /\ ~ast.AddTypes
    /\ ast.Body = sLoop
    /\ ast.Comment = <<"a", " ", "\n", "b">>
    /\ Last(out) = "."

(* C8: the module of a StructDecl opens with Module <Name>. and closes    *)
(* with End <Name>., and holds a struct definition listing the fields     *)
(* once each in declaration order, a zero-value instance, and a field     *)
(* accessor section.                                                       *)
\* lines from..from+n of ls are the struct definition of d
FieldsListedAt(d, ls, from) ==
    LET n == Len(d.Fields)
    IN  /\ from + n + 1 <= Len(ls)
        /\ ls[from] = <<" ", " ", "D", "e", "f", "i", "n", "i", "t", "i", "o", "n", " ", "S", " ", ":", "=", " ", "s", "t", "r", "u", "c", "t", ".", "d", "e", "c", "l", " ", "[">>
        /\ \A k \in 1..n :
              ls[from + k] = <<" ", " ", " ", " ">> \o QuotedName(d.Fields[k].Name) \o <<" ", ":", ":", " ">>
                               \o Coq(d.Fields[k].Type)
                               \o (IF k < n THEN <<";">> ELSE <<>>)
        /\ ls[from + n + 1] = <<" ", " ", "]", ".">>

StructModuleFrame(d, ls) ==
    /\ ls[1] = <<"M", "o", "d", "u", "l", "e", " ">> \o d.Name \o <<".">>
    /\ Last(ls) = <<"E", "n", "d", " ">> \o d.Name \o <<".">>
    /\ \E from \in 1..Len(ls) : FieldsListedAt(d, ls, from)

HasAccessorSection(ls) ==
    \E a, b, c \in 1..Len(ls) :
        /\ a < b /\ b < c
        /\ ls[a] = <<" ", " ", "S", "e", "c", "t", "i", "o", "n", " ", "f", "i", "e", "l", "d", "s", ".">>
        /\ ls[b] = <<" ", " ", " ", " ", "D", "e", "f", "i", "n", "i", "t", "i", "o", "n", " ", "g", "e", "t", " ", ":", "=", " ", "s", "t", "r", "u", "c", "t", ".", "g", "e", "t", " ", "S", ".">>
        /\ ls[c] = <<" ", " ", "E", "n", "d", " ", "f", "i", "e", "l", "d", "s", ".">>

HasZeroInstance(ls) ==
    \E k \in 1..Len(ls) : Contains(ls[k], <<"z", "e", "r", "o">>) \/ Contains(ls[k], <<"Z", "e", "r", "o">>)

C8_StructModule ==
    (pc = "rendered" /\ ast.kind = "StructDecl") =>
        /\ StructModuleFrame(ast, Lines(out))
        /\ HasZeroInstance(Lines(out))
        /\ HasAccessorSection(Lines(out))

(* C9: a call renders as the method name and the arguments in order,      *)
(* separated by single spaces; an argument is put in parentheses unless   *)
(* its rendering has no whitespace or is one group enclosed by a matching *)
(* pair of delimiters.                                                     *)
HasWhitespace(s) == \E k \in 1..Len(s) : s[k] \in {" ", "\n", "\t"}

\* opening runes less closing runes among the first k runes of s
Depth(s, k, open, close) ==
    Cardinality({j \in 1..k : s[j] = open}) - Cardinality({j \in 1..k : s[j] = close})

\* s starts with lDelim, and the group it opens ends with the rDelim that ends s
EnclosedGroup(s, lDelim, rDelim, open, close) ==
    /\ HasPrefix(s, lDelim)
    /\ HasSuffix(s, rDelim)
    /\ Len(s) >= Len(lDelim) + Len(rDelim)
    /\ \A k \in 1..(Len(s) - 1) : Depth(s, k, open, close) >= 1
    /\ Depth(s, Len(s), open, close) = 0

Balanced(s) ==
    \/ EnclosedGroup(s, <<"(">>, <<")">>, "(", ")")
    \/ EnclosedGroup(s, <<"{", "|">>, <<"|", "}">>, "{", "}")

ArgumentText(s) ==
    IF ~HasWhitespace(s) \/ Balanced(s) THEN s ELSE <<"(">> \o s \o <<")">>

C9_CallArguments ==
    (pc = "rendered" /\ ast.kind = "CallExpr" /\ ~Panicked(out)) =>
        out = Join(<<ast.MethodName>>
                     \o [k \in 1..Len(ast.Args) |-> ArgumentText(Coq(ast.Args[k]))],
                   <<" ">>)

(* C10: a StructLiteral lists its (field, value) pairs once each in the   *)
(* order of the AddField calls, with ; after every pair but the last,     *)
(* under struct.new when Allocation is set and struct.mk otherwise.       *)
LiteralText(allocation, structName, pairs) ==
    LET n == Len(pairs)
        ctor == IF allocation THEN <<"s", "t", "r", "u", "c", "t", ".", "n", "e", "w">> ELSE <<"s", "t", "r", "u", "c", "t", ".", "m", "k">>
    IN  Join(<<ctor \o <<" ">> \o structName \o <<".", "S", " ", "[">>>>
               \o [k \in 1..n |->
                     <<" ", " ">> \o indent(2, QuotedName(pairs[k].Field) \o <<" ", ":", ":", "=", " ">>
                                          \o Coq(pairs[k].Value)
                                          \o (IF k < n THEN <<";">> ELSE <<>>))]
               \o <<<<"]">>>>,
             <<"\n">>)

C10_StructLiteralOrder ==
    (pc = "rendered" /\ ast.kind = "StructLiteral") =>
        out = LiteralText(ast.Allocation, ast.StructName, calls)

C10_Witness ==
    /\ pc = "rendered"
    /\ ast.kind = "StructLiteral"
    /\ ast.Allocation
    /\ Len(calls) = 2
    /\ calls[1].Field = <<"_">>
    /\ calls[2].Field = <<"a">>
    /\ calls[1].Value = sBlock

\* the parts of C8 that do not speak of the zero-value instance
StructModuleWithoutZero ==
    (pc = "rendered" /\ ast.kind = "StructDecl") =>
        /\ StructModuleFrame(ast, Lines(out))
        /\ HasAccessorSection(Lines(out))

(* C11: a field access on struct T, field f, base x renders as            *)
(* struct.loadF T "f" x when ThroughPointer is set and as T.get "f" x     *)
(* when it is not, x in parentheses by the rule for call arguments; the   *)
(* choice depends on ThroughPointer only.                                  *)
\* the text a call gives its argument x: the rendering of g x less the g and the space
CallArgument(x) ==
    LET call == Coq(CallExpr(<<"g">>, <<x>>))
    IN  SubSeq(call, 3, Len(call))

C11_FieldAccess ==
    (pc = "rendered" /\ ast.kind = "StructFieldAccessExpr" /\ ~Panicked(out)) =>
        out = IF ast.ThroughPointer
              THEN <<"s", "t", "r", "u", "c", "t", ".", "l", "o", "a", "d", "F", " ">> \o ast.Struct \o <<" ">> \o QuotedName(ast.Field)
                       \o <<" ">> \o CallArgument(ast.X)
              ELSE ast.Struct \o <<".", "g", "e", "t", " ">> \o QuotedName(ast.Field)
                       \o <<" ">> \o CallArgument(ast.X)

(* C11, amended: the field access renders as struct.loadF T.S "f" x, T.S  *)
(* being the descriptor of struct T, when ThroughPointer is set and as    *)
(* T.get "f" x when it is not, x in parentheses as a call argument is;    *)
(* the choice depends on ThroughPointer only.                              *)
C11_FieldAccessDescriptor ==
    (pc = "rendered" /\ ast.kind = "StructFieldAccessExpr" /\ ~Panicked(out)) =>
        out = IF ast.ThroughPointer
              THEN <<"s", "t", "r", "u", "c", "t", ".", "l", "o", "a", "d", "F", " ">> \o ast.Struct \o <<".", "S", " ">> \o QuotedName(ast.Field)
                       \o <<" ">> \o CallArgument(ast.X)
              ELSE ast.Struct \o <<".", "g", "e", "t", " ">> \o QuotedName(ast.Field)
                       \o <<" ">> \o CallArgument(ast.X)

C11_Witness ==
    /\ pc = "rendered"
    /\ ast.kind = "StructFieldAccessExpr"
    /\ ast.ThroughPointer
    /\ ast.X = sLoop
    /\ HasPrefix(out, <<"s", "t", "r", "u", "c", "t", ".", "l", "o", "a", "d", "F", " ", "T", ".", "S", " ", "\"", "a", "\"", " ", "(", "l", "e", "t", ":", " ">>)
    /\ ~Panicked(out)

(* C12: an IfExpr renders (if: <cond>, then the then-branch, then the      *)
(* else-branch: a branch whose rendering has no newline is one line, then  *)
(* EXPR or else EXPR; a branch of several lines is the keyword alone on a *)
(* line with the branch two columns in beneath it; the rendering begins   *)
(* with ( and ends with the matching ), placed after the else-branch.     *)
\* s with its first line and every later non-empty line n columns further in
Shifted(n, s) ==
    LET ls == Lines(s)
    IN  Join([k \in 1..Len(ls) |->
                IF k > 1 /\ ls[k] = <<>> THEN <<>> ELSE Repeat(<<" ">>, n) \o ls[k]],
             <<"\n">>)

BranchText(keyword, code) ==
    IF \E k \in 1..Len(code) : code[k] = "\n"
    THEN keyword \o <<"\n">> \o Shifted(2, code)
    ELSE keyword \o <<" ">> \o code

C12_IfLayout ==
    (pc = "rendered" /\ ast.kind = "IfExpr" /\ ~Panicked(out)) =>
        /\ out = <<"(", "i", "f", ":", " ">> \o Coq(ast.Cond) \o <<"\n">>
                    \o BranchText(<<"t", "h", "e", "n">>, Coq(ast.Then)) \o <<"\n">>
                    \o BranchText(<<"e", "l", "s", "e">>, Coq(ast.Else) \o <<")">>)
        /\ EnclosedGroup(out, <<"(">>, <<")">>, "(", ")")

C12_Witness ==
    /\ pc = "rendered"
    /\ ast.kind = "IfExpr"
    /\ ast.Cond = sVar
    /\ ast.Then = sInt32
    /\ ast.Else = sIf
    /\ out = <<"(", "i", "f", ":", " ", "\"", "x", "\"", "\n", "t", "h", "e", "n", " ", "#", "(", "U", "3", "2", " ", "1", ")", "\n", "e", "l", "s", "e", "\n", " ", " ", "(", "i", "f", ":", " ", "\"", "x", "\"", "\n", " ", " ", "t", "h", "e", "n", "\n", " ", " ", " ", " ", "\"", "x", "\"", ";", ";", "\n", " ", " ", " ", " ", "S", "k", "i", "p", "\n", " ", " ", "e", "l", "s", "e", " ", "#", "(", "U", "3", "2", " ", "1", ")", ")", ")">>

(* C13: a ForLoopExpr renders the Init binding in the form of a binding   *)
(* that is not the last of its block, then (for: (<cond>); (<post>) :=,   *)
(* then the loop body two columns in with a closing ) right after the     *)
(* body's last line, so that the parenthesis opened before for: is closed *)
(* exactly once.                                                           *)
\* the text from (for: on
LoopText(e) ==
    <<"(", "f", "o", "r", ":", " ", "(">> \o Coq(e.Cond) \o <<")", ";", " ", "(">> \o Coq(e.Post) \o <<")", " ", ":", "=", "\n">>
        \o Shifted(2, Coq(e.Body) \o <<")">>)

C13_ForLoopLayout ==
    (pc = "rendered" /\ ast.kind = "ForLoopExpr" /\ ~Panicked(out)) =>
        /\ out = BindingForm(ast.Init) \o <<"\n">> \o LoopText(ast)
        /\ EnclosedGroup(LoopText(ast), <<"(">>, <<")">>, "(", ")")

C13_Witness ==
    /\ pc = "rendered"
    /\ ast.kind = "ForLoopExpr"
    /\ Len(ast.Init.Names) = 2
    /\ ast.Init.Expr = sBlock
    /\ ast.Body = BlockExpr(<<NewAnon(sLoop)>>)
    /\ ~Panicked(out)

(* C14: an IdentExpr named s renders as s in double quotes and a          *)
(* GallinaIdent as its name without quotes; the wildcard name _ renders   *)
(* as <>, never as "_", in every binder position (function parameters,    *)
(* let-binders, tuple binders, map-iteration binders) and in every quoted *)
(* position.                                                               *)
\* the names a node itself prints as binders or in quotes
OwnNames(n) ==
    CASE n.kind = "IdentExpr" -> {n.name}
      [] n.kind = "GallinaString" -> {n.value}
      [] n.kind = "StructLiteral" -> {fv.Field : fv \in Range(n.elts)}
      [] n.kind = "BlockExpr" ->
            UNION {Range(n.Bindings[k].Names) : k \in 1..(Len(n.Bindings) - 1)}
      [] n.kind = "ForLoopExpr" -> Range(n.Init.Names)
      [] n.kind = "MapIterExpr" -> {n.KeyIdent, n.ValueIdent}
      [] n.kind = "StructFieldAccessExpr" -> {n.Field}
      [] n.kind = "StructDecl" -> {fd.Name : fd \in Range(n.Fields)}
      [] n.kind = "FuncDecl" -> {fd.Name : fd \in Range(n.Args)}
      [] OTHER -> {}

PrintsWildcard(n) == \E m \in NodesOf(n) : <<"_">> \in OwnNames(m)

RECURSIVE BindersFrom(_, _)
\* the binders of args[k..], a space before each but the first
BindersFrom(args, k) ==
    IF k > Len(args) THEN <<>>
    ELSE (IF k > 1 THEN <<" ">> ELSE <<>>) \o QuotedName(args[k].Name)
             \o BindersFrom(args, k + 1)

SignatureText(args) == IF Len(args) = 0 THEN <<"<", ">">> ELSE BindersFrom(args, 1)

Reindented(n, col, s) ==
    LET ls == Lines(s)
    IN  Join([k \in 1..Len(ls) |->
                IF k = 1 THEN Repeat(<<" ">>, n) \o ls[1]
                ELSE IF ls[k] = <<>> THEN <<>>
                ELSE Repeat(<<" ">>, n + col) \o ls[k]],
             <<"\n">>)

MultiLine(s) == \E k \in 1..Len(s) : s[k] = "\n"

\* the last call was op, and it returned
Did(op) == pc = "buffer" /\ lastCall.op = op

C16_AddReindentsToColumn ==
    ((Did("Add") \/ Did("AddLine")) /\ MultiLine(lastCall.text)) =>
        Last(buffer.lines) = Reindented(lastCall.before.indentLevel,
                                        Len(lastCall.prefix),
                                        lastCall.prefix \o lastCall.text)

(* C16, amended: when a multi-line string is inserted with Add or AddLine *)
(* at indent level n, the first line of the entry is at column n and each *)
(* later non-empty line has n spaces put before it: the level only,       *)
(* whatever the column at which the string was inserted into its line.    *)
C16_AddReindentsToLevel ==
    ((Did("Add") \/ Did("AddLine")) /\ MultiLine(lastCall.text)) =>
        /\ Last(buffer.lines) = Reindented(lastCall.before.indentLevel, 0,
                                          lastCall.prefix \o lastCall.text)
        /\ buffer.indentLevel = lastCall.before.indentLevel

C16_Witness ==
    /\ Did("Add")
    /\ lastCall.before.indentLevel = 2
    /\ lastCall.prefix = <<"p", " ">>
    /\ lastCall.text = <<"a", "\n", "\n", " ", "b">>
    /\ Last(buffer.lines) = <<" ", " ", "p", " ", "a", "\n", "\n", " ", " ", " ", "b">>

(* C17: Block(prefix, body) at indent level n emits prefix + body with    *)
(* the first line at column n and every non-empty continuation line of    *)
(* body len(prefix) columns beyond column n, and has no other effect on   *)
(* the buffer.                                                             *)
BlockEntry ==
    Reindented(lastCall.before.indentLevel, Len(lastCall.prefix),
               lastCall.prefix \o lastCall.text)

C17_BlockOnlyEmits ==
    Did("Block") =>
        /\ buffer.lines = Append(lastCall.before.lines, BlockEntry)
        /\ buffer.indentLevel = lastCall.before.indentLevel

(* C17, amended: Block(prefix, body) at indent level n emits prefix +     *)
(* body with the first line at column n and every non-empty continuation  *)
(* line of body len(prefix) columns beyond column n, and raises the       *)
(* indent level by len(prefix); it has no other effect on the buffer.     *)
C17_BlockEmitsAndIndents ==
    Did("Block") =>
        /\ buffer.lines = Append(lastCall.before.lines, BlockEntry)
        /\ buffer.indentLevel = lastCall.before.indentLevel + Len(lastCall.prefix)

C17_Witness ==
    /\ Did("Block")
    /\ lastCall.before.indentLevel = 2
    /\ lastCall.prefix = <<"(", "*", " ">>
    /\ lastCall.text = <<"a", "\n", "\n", " ", "b">>
    /\ Last(buffer.lines) = <<" ", " ", "(", "*", " ", "a", "\n", "\n", " ", " ", " ", " ", " ", " ", "b">>
    /\ buffer.indentLevel = 5

(* C18: the buffer is append-only: each AddLine, Add and Block call       *)
(* appends exactly one entry to lines and leaves the earlier entries as   *)
(* they were, Indent changes indentLevel only, and Build changes nothing  *)
(* and returns the entries in insertion order with a newline between      *)
(* consecutive entries and none after the last.                            *)
RECURSIVE EntriesInOrder(_)
\* the entries one after the other, a newline before each but the first
EntriesInOrder(entries) ==
    IF Len(entries) = 0 THEN <<>>
    ELSE IF Len(entries) = 1 THEN entries[1]
    ELSE EntriesInOrder(SubSeq(entries, 1, Len(entries) - 1))
             \o <<"\n">> \o entries[Len(entries)]

IsPrefixOf(s, t) == Len(s) <= Len(t) /\ SubSeq(t, 1, Len(s)) = s

C18_AppendOnly ==
    (pc = "buffer" /\ lastCall.n > 0) =>
        /\ IsPrefixOf(lastCall.before.lines, buffer.lines)
        /\ lastCall.op \in {"AddLine", "Add", "Block"} =>
              Len(buffer.lines) = Len(lastCall.before.lines) + 1
        /\ lastCall.op = "Indent" =>
              /\ buffer.lines = lastCall.before.lines
              /\ buffer.indentLevel = lastCall.before.indentLevel + lastCall.spaces
        /\ lastCall.op = "Build" =>
              /\ buffer = lastCall.before
              /\ built = EntriesInOrder(buffer.lines)

C18_Witness ==
    /\ Did("Build")
    /\ lastCall.n = 3
    /\ buffer.lines = <<<<"p", " ", "a">>, <<" ", " ", "(", "*", " ", "a", " ", "*", ")">>>>
    /\ built = <<"p", " ", "a", "\n", " ", " ", "(", "*", " ", "a", " ", "*", ")">>

====
